---- MODULE Spec2Model ----
(***************************************************************************)
(* Non-maximum suppression of utilities/nms.py: run_nms_inplace,          *)
(* greedy_nms_inplace and bbox_iou.                                        *)
(*                                                                         *)
(* The prediction buffer preds is a sequence of rows; a row is the flat    *)
(* sequence <<tx, ty, tw, th, objectness, class_1, ..., class_C>>.         *)
(* Python indices are 0-based, the sequences here are 1-based: box i of    *)
(* the source is row i+1 here, and every column constant is the source's   *)
(* value plus one.                                                         *)
(*                                                                         *)
(* Numbers are exact: scores are naturals, corner coordinates are kept     *)
(* doubled (so that tw/2 needs no division) and an IOU is the pair         *)
(* <<interArea, unionArea>>; a threshold is the pair <<num, den>>.         *)
(***************************************************************************)
EXTENDS Integers, Sequences, FiniteSets, TLC

\* ---------------------------------------------------------------- bounds
MaxN == 3          \* rows of the buffer: 0..MaxN
MaxClasses == 2    \* class columns of a row: 1..MaxClasses
MaxCells == 6      \* rows times class columns of an input buffer
MaxScore == 2      \* a class score is in 0..MaxScore
MaxPos == 2        \* a box centre tx is in 0..MaxPos
MaxTotal == 4      \* sum of all class scores of an input buffer

\* ------------------------------------------- utilities/constants.py
YOLO_TX == 1
YOLO_TY == 2
YOLO_TW == 3
YOLO_TH == 4
YOLO_CLASS_START == 6
BBOX_X1 == 1
BBOX_Y1 == 2
BBOX_X2 == 3
BBOX_Y2 == 4
GREEDY_NMS == "greedy"
NMS_THRESHOLD == <<9, 20>>

\* ---------------------------------------------------------------- inputs
NmsKinds == {GREEDY_NMS, "other"}
\* boxes are 4 wide and 4 high, centred at (tx, 0): two boxes have IOU 1, 3/5,
\* 1/3, 1/7 or 0 when their centres are 0, 1, 2, 3 or more apart
Thresholds == {<<1, 4>>, <<1, 3>>}
NoLayer == [nms_kind |-> "none", nms_thresh |-> <<0, 1>>]
Layers == [nms_kind : NmsKinds, nms_thresh : Thresholds]

ScoreVecs(C) == [1..C -> 0..MaxScore]
RowSet(C) == {<<x, 0, 4, 4, 1>> \o s : x \in 0..MaxPos, s \in ScoreVecs(C)}

RECURSIVE SumSeq(_)
SumSeq(s) == IF s = <<>> THEN 0 ELSE Head(s) + SumSeq(Tail(s))

RowTotal(row) == SumSeq(SubSeq(row, YOLO_CLASS_START, Len(row)))

RECURSIVE Total(_)
Total(p) == IF p = <<>> THEN 0 ELSE RowTotal(Head(p)) + Total(Tail(p))

Shapes == {sh \in (0..MaxN) \X (1..MaxClasses) : sh[1] * sh[2] <= MaxCells}
Buffers ==
    UNION {{p \in [1..sh[1] -> RowSet(sh[2])] : Total(p) <= MaxTotal} : sh \in Shapes}

\* ------------------------------------------------------------- bbox_iou
Max(a, b) == IF a >= b THEN a ELSE b
Min(a, b) == IF a <= b THEN a ELSE b
Clamp0(x) == IF x < 0 THEN 0 ELSE x

\* nms.py 44-51: corner form of one row (coordinates doubled)
Corners(row) ==
    LET half_w2 == row[YOLO_TW]
        half_h2 == row[YOLO_TH]
    IN  << 2 * row[YOLO_TX] - half_w2, 2 * row[YOLO_TY] - half_h2,
           2 * row[YOLO_TX] + half_w2, 2 * row[YOLO_TY] + half_h2 >>

\* nms.py 42-51: the corner boxes of the whole buffer
Bboxes(p) == [r \in 1..Len(p) |-> Corners(p[r])]

\* nms.py 80-111: the IOU of two corner boxes, as <<interArea, unionArea>>
bbox_iou(a, b) ==
    LET xA == Max(a[BBOX_X1], b[BBOX_X1])
        yA == Max(a[BBOX_Y1], b[BBOX_Y1])
        xB == Min(a[BBOX_X2], b[BBOX_X2])
        yB == Min(a[BBOX_Y2], b[BBOX_Y2])
        interArea == Clamp0(xB - xA) * Clamp0(yB - yA)
        aArea == (a[BBOX_X2] - a[BBOX_X1]) * (a[BBOX_Y2] - a[BBOX_Y1])
        bArea == (b[BBOX_X2] - b[BBOX_X1]) * (b[BBOX_Y2] - b[BBOX_Y1])
    IN  <<interArea, aArea + bArea - interArea>>

\* a non-strict overlap test
IouGe(iou, t) == iou[1] * t[2] >= t[1] * iou[2]

\* nms.py 59: iou > nms_thresh, for a positive union area and denominator
IouGt(iou, t) == iou[1] * t[2] > t[1] * iou[2]

\* ---------------------------------------------- greedy_nms_inplace body
\* a class slice that starts one column early, at the objectness
ClassCols_off(row) == (YOLO_CLASS_START - 1)..Len(row)

\* nms.py 40: the class columns of a row
ClassCols(row) == YOLO_CLASS_START..Len(row)

\* nms.py 55-59: thresh_mask[k] is about box i and box i+k
ThreshMask(bb, i, t) ==
    [k \in 1..(Len(bb) - i) |-> IouGt(bbox_iou(bb[i], bb[i + k]), t)]

\* a tie zeroes the earlier box
ClassZeroA_le(a, b) == a <= b

\* the higher of the two scores is zeroed
ClassZeroA_gt(a, b) == a > b

\* nms.py 65: class_zero_a = class_a < class_b_thresh
ClassZeroA(a, b) == a < b

\* a tie zeroes neither box
ClassZeroB_strict(a, b) == a > b

\* nms.py 66: class_zero_b = ~class_zero_a
ClassZeroB(a, b) == ~ClassZeroA(a, b)

\* the zeroes are written to the masked copy and lost
ZeroMaskB_lost(p, mask, i, k, c) == FALSE

\* nms.py 69-70: zero_mask_b, class_zero_b scattered to the rows of the mask
ZeroMaskB(p, mask, i, k, c) == mask[k] /\ ClassZeroB(p[i][c], p[i + k][c])

\* the zeroes of row i are written to a copy of the row and lost
ZeroA_lost(p, mask, i, c) == FALSE

\* nms.py 63, 73: class_a is row i expanded over the masked rows, so
\* class_a[class_zero_a] = 0 zeroes column c of row i when any masked row
\* has class_zero_a set in column c
ZeroA(p, mask, i, c) ==
    \E k \in DOMAIN mask : mask[k] /\ ClassZeroA(p[i][c], p[i + k][c])

\* nms.py 55-74: one iteration of the loop, for box i
NmsBody(p, bb, i, t) ==
    LET mask == ThreshMask(bb, i, t)
    IN  [r \in 1..Len(p) |->
          [f \in 1..Len(p[r]) |->
            IF f \notin ClassCols(p[r]) THEN p[r][f]
            ELSE IF r = i /\ ZeroA(p, mask, i, f) THEN 0
            ELSE IF r > i /\ ZeroMaskB(p, mask, i, r - i, f) THEN 0
            ELSE p[r][f]]]

\* the loop stops one box early
HasNext_short(bb, i) == i <= Len(bb) - 2

\* nms.py 54: enumerate(bboxes[:-1]) still has a box i to visit
HasNext(bb, i) == i <= Len(bb) - 1

\* nms.py 25-76: the whole call, as a function of the buffer
RECURSIVE NmsFrom(_, _, _, _)
NmsFrom(p, bb, i, t) ==
    IF HasNext(bb, i) THEN NmsFrom(NmsBody(p, bb, i, t), bb, i + 1, t) ELSE p

greedy_nms(p, t) == NmsFrom(p, Bboxes(p), 1, t)

\* the dispatch ignores the kind
IsGreedy_always(layer) == TRUE

\* nms.py 19: the dispatch test of run_nms_inplace
IsGreedy(layer) == layer.nms_kind = GREEDY_NMS

\* ------------------------------------------------------------------ state
VARIABLES
    preds,        \* the prediction buffer, mutated in place
    input,        \* preds as it was when the current call started
    bboxes,       \* nms.py 42: corner boxes computed at the start of the call
    i,            \* nms.py 54: the loop index
    nms_thresh,   \* nms.py 25: the parameter of greedy_nms_inplace
    yolo_layer,   \* nms.py 6: the parameter of run_nms_inplace
    entry,        \* which function the caller called
    pc,           \* "idle", "loop" or "done"
    hist,         \* hist[k]: preds at the start of the iteration for box k
    run,          \* 1 for the first call on the buffer, 2 for the repeated one
    first         \* the buffer returned by the first call

vars == <<preds, input, bboxes, i, nms_thresh, yolo_layer, entry, pc, hist, run, first>>

Init ==
    /\ preds \in Buffers
    /\ input = preds
    /\ bboxes = <<>>
    /\ i = 1
    /\ nms_thresh = <<0, 1>>
    /\ yolo_layer = NoLayer
    /\ entry = "none"
    /\ pc = "idle"
    /\ hist = <<>>
    /\ run = 1
    /\ first = <<>>

\* nms.py 25-51: greedy_nms_inplace(preds, t) is entered
EnterGreedy(t) ==
    /\ bboxes' = Bboxes(preds)
    /\ nms_thresh' = t
    /\ i' = 1
    /\ hist' = <<>>
    /\ pc' = "loop"

\* a caller calls greedy_nms_inplace(preds, t)
CallGreedy ==
    /\ pc = "idle"
    /\ \E t \in Thresholds : EnterGreedy(t)
    /\ entry' = "greedy_nms_inplace"
    /\ UNCHANGED <<preds, input, yolo_layer, run, first>>

\* nms.py 6-22: a caller calls run_nms_inplace(preds, layer)
CallRunNms ==
    /\ pc = "idle"
    /\ \E layer \in Layers :
         /\ yolo_layer' = layer
         /\ IF IsGreedy(layer)
              THEN EnterGreedy(NMS_THRESHOLD)
              ELSE /\ pc' = "done"
                   /\ UNCHANGED <<bboxes, nms_thresh, i, hist>>
    /\ entry' = "run_nms_inplace"
    /\ UNCHANGED <<preds, input, run, first>>

\* nms.py 54-74: one iteration of the loop
LoopIter ==
    /\ pc = "loop"
    /\ HasNext(bboxes, i)
    /\ preds' = NmsBody(preds, bboxes, i, nms_thresh)
    /\ hist' = Append(hist, preds)
    /\ i' = i + 1
    /\ UNCHANGED <<input, bboxes, nms_thresh, yolo_layer, entry, pc, run, first>>

\* nms.py 54, 76: the loop is exhausted and the call returns
Return ==
    /\ pc = "loop"
    /\ ~HasNext(bboxes, i)
    /\ pc' = "done"
    /\ UNCHANGED <<preds, input, bboxes, i, nms_thresh, yolo_layer, entry, hist, run, first>>

\* the caller calls greedy_nms_inplace again on the returned buffer, with
\* the same threshold
CallAgain ==
    /\ pc = "done"
    /\ entry = "greedy_nms_inplace"
    /\ run = 1
    /\ run' = 2
    /\ first' = preds
    /\ input' = preds
    /\ EnterGreedy(nms_thresh)
    /\ UNCHANGED <<preds, yolo_layer, entry>>

Next == CallGreedy \/ CallRunNms \/ LoopIter \/ Return \/ CallAgain

Spec == Init /\ [][Next]_vars

\* ------------------------------------------------------- claim vocabulary
N == Len(preds)
Cols == IF N = 0 THEN {} ELSE YOLO_CLASS_START..Len(input[1])

\* greedy_nms_inplace has run on the buffer and returned
GreedyDone ==
    /\ pc = "done"
    /\ \/ entry = "greedy_nms_inplace"
       \/ entry = "run_nms_inplace" /\ yolo_layer.nms_kind = GREEDY_NMS

\* the IOU of rows j and k of the input
IouOf(j, k) == bbox_iou(Corners(input[j]), Corners(input[k]))

\* rows j and k overlap by more than the threshold of the call
Overlap(j, k) ==
    LET iou == IouOf(j, k) IN iou[1] * nms_thresh[2] > nms_thresh[1] * iou[2]

\* the box of the last completed iteration, and the buffer at its start
Last == Len(hist)
Before == hist[Last]

\* the loop of the design document: every comparison reads the current scores
SeqPair(p, j, k) ==
    [r \in 1..Len(p) |->
      [f \in 1..Len(p[r]) |->
        IF f < YOLO_CLASS_START THEN p[r][f]
        ELSE IF r = j /\ p[j][f] < p[k][f] THEN 0
        ELSE IF r = k /\ ~(p[j][f] < p[k][f]) THEN 0
        ELSE p[r][f]]]

RECURSIVE SeqInner(_, _, _, _)
SeqInner(p, j, k, t) ==
    IF k > Len(p) THEN p
    ELSE SeqInner(IF IouGt(bbox_iou(Corners(p[j]), Corners(p[k])), t)
                    THEN SeqPair(p, j, k) ELSE p, j, k + 1, t)

RECURSIVE SeqOuter(_, _, _)
SeqOuter(p, j, t) ==
    IF j > Len(p) - 1 THEN p ELSE SeqOuter(SeqInner(p, j, j + 1, t), j + 1, t)

SeqLoop(p, t) == SeqOuter(p, 1, t)

\* the same loop, except that row j is read once, before its inner loop
SnapPair(p, a, j, k) ==
    [r \in 1..Len(p) |->
      [f \in 1..Len(p[r]) |->
        IF f < YOLO_CLASS_START THEN p[r][f]
        ELSE IF r = j /\ a[f] < p[k][f] THEN 0
        ELSE IF r = k /\ ~(a[f] < p[k][f]) THEN 0
        ELSE p[r][f]]]

RECURSIVE SnapInner(_, _, _, _, _)
SnapInner(p, a, j, k, t) ==
    IF k > Len(p) THEN p
    ELSE SnapInner(IF IouGt(bbox_iou(Corners(p[j]), Corners(p[k])), t)
                     THEN SnapPair(p, a, j, k) ELSE p, a, j, k + 1, t)

RECURSIVE SnapOuter(_, _, _)
SnapOuter(p, j, t) ==
    IF j > Len(p) - 1 THEN p
    ELSE SnapOuter(SnapInner(p, p[j], j, j + 1, t), j + 1, t)

SnapLoop(p, t) == SnapOuter(p, 1, t)

\* ------------------------------------------------------------------ claims

\* C1 (as stated): after greedy_nms_inplace returns, for every pair of
\* overlapping boxes and every class, the box with the lower INPUT score (the
\* higher-indexed box on a tie) has score 0.
C1_LowerInputScoreZeroed ==
    GreedyDone =>
      \A j \in 1..N : \A k \in (j + 1)..N :
        Overlap(j, k) => \A c \in Cols :
          IF input[j][c] < input[k][c] THEN preds[j][c] = 0 ELSE preds[k][c] = 0

\* C1 (amended): after greedy_nms_inplace returns, for every pair of
\* overlapping boxes j < k and every class, the box with the lower score at
\* the start of the iteration for box j (the higher-indexed box on a tie) has
\* score 0.
C1_LowerCurrentScoreZeroed ==
    GreedyDone =>
      \A j \in 1..N : \A k \in (j + 1)..N :
        Overlap(j, k) => \A c \in Cols :
          IF hist[j][j][c] < hist[j][k][c] THEN preds[j][c] = 0 ELSE preds[k][c] = 0

\* a pair overlaps, its earlier box was already zeroed when the pair was
\* compared, and the later box, lower on input, keeps its score
C1_Witness ==
    /\ GreedyDone
    /\ \E j \in 1..N : \E k \in (j + 1)..N : \E c \in Cols :
         /\ Overlap(j, k)
         /\ input[j][c] >= input[k][c]
         /\ hist[j][j][c] = 0
         /\ preds[k][c] > 0

\* C2: run_nms_inplace with the greedy kind returns the buffer that
\* greedy_nms_inplace gives under the threshold configured for the layer.
C2_UsesLayerThreshold ==
    (pc = "done" /\ entry = "run_nms_inplace" /\ yolo_layer.nms_kind = GREEDY_NMS)
      => preds = greedy_nms(input, yolo_layer.nms_thresh)

\* C3: a second greedy_nms_inplace on the returned buffer, with the same
\* threshold, changes no entry.
C3_Idempotent == run = 2 => preds = first

\* the second call has returned on a buffer where an overlapping pair has a
\* zeroed earlier box and a surviving later box
C3_Witness ==
    /\ run = 2
    /\ pc = "done"
    /\ N = 3
    /\ \E j \in 1..N : \E k \in (j + 1)..N : \E c \in Cols :
         Overlap(j, k) /\ preds[j][c] = 0 /\ preds[k][c] > 0

\* C4: during and after the call the buffer keeps its rows and their order,
\* every field before the class columns keeps its input value, and every
\* class score is its input value or 0, hence never above its input value.
C4_OnlyClassScoresZeroed ==
    /\ Len(preds) = Len(input)
    /\ \A r \in 1..N :
         /\ Len(preds[r]) = Len(input[r])
         /\ \A f \in 1..(YOLO_CLASS_START - 1) : preds[r][f] = input[r][f]
         /\ \A c \in Cols :
              /\ preds[r][c] \in {input[r][c], 0}
              /\ preds[r][c] <= input[r][c]

\* the loop is running and has zeroed a score
C4_Witness == pc = "loop" /\ i > 1 /\ preds # input

\* C5: when box j is compared with a later overlapping box k and their
\* scores for a class are equal at that moment, the iteration zeroes the
\* score of k, and it zeroes the score of j only if another later overlapping
\* box holds a strictly greater score; a two-box overlapping buffer with
\* identical class scores returns with box 1 as on input and every class
\* score of box 2 zero.
C5_TieFavoursLowerIndex ==
    /\ Last >= 1 =>
         \A k \in (Last + 1)..N :
           Overlap(Last, k) => \A c \in Cols :
             Before[Last][c] = Before[k][c] =>
               /\ preds[k][c] = 0
               /\ preds[Last][c] # Before[Last][c] =>
                    \E m \in (Last + 1)..N :
                      Overlap(Last, m) /\ Before[Last][c] < Before[m][c]
    /\ (GreedyDone /\ N = 2) =>
         ((Overlap(1, 2) /\ \A c \in Cols : input[1][c] = input[2][c]) =>
            /\ preds[1] = input[1]
            /\ \A c \in Cols : preds[2][c] = 0)

\* two overlapping boxes with identical nonzero class scores have been
\* suppressed
C5_Witness ==
    /\ GreedyDone
    /\ N = 2
    /\ Overlap(1, 2)
    /\ Cardinality(Cols) = 2
    /\ \A c \in Cols : input[1][c] = input[2][c] /\ input[1][c] > 0

\* C6: a pair with IOU <= threshold zeroes nothing: the iteration for box j
\* leaves a later box k with IOU(j, k) <= threshold as it was and changes
\* box j only if some later box overlaps it, and a class score of a box
\* differs from its input only if some other box overlaps that box.
C6_NoSuppressionAtOrBelowThreshold ==
    /\ Last >= 1 =>
         /\ \A k \in (Last + 1)..N : ~Overlap(Last, k) => preds[k] = Before[k]
         /\ preds[Last] # Before[Last] => \E k \in (Last + 1)..N : Overlap(Last, k)
    /\ \A r \in 1..N :
         preds[r] # input[r] => \E k \in 1..N : k # r /\ Overlap(r, k)

\* the call has returned, a pair whose IOU equals the threshold holds
\* different nonzero scores for a class and both are kept, while another
\* pair was suppressed
C6_Witness ==
    /\ GreedyDone
    /\ preds # input
    /\ \E j \in 1..N : \E k \in (j + 1)..N : \E c \in Cols :
         /\ IouOf(j, k)[1] * nms_thresh[2] = nms_thresh[1] * IouOf(j, k)[2]
         /\ input[j][c] > 0 /\ input[k][c] > 0 /\ input[j][c] # input[k][c]
         /\ preds[j][c] = input[j][c] /\ preds[k][c] = input[k][c]

\* the lowest row holding the maximum input score of class c
MaxRow(c) ==
    CHOOSE m \in 1..N :
      /\ \A r \in 1..N : input[r][c] <= input[m][c]
      /\ \A r \in 1..(m - 1) : input[r][c] < input[m][c]

\* C7: when all boxes of the buffer pairwise overlap, then for each class
\* the lowest-indexed box holding the maximum input score keeps it and
\* every other box has score 0 for that class.
C7_KeepsMostConfident ==
    (GreedyDone /\ N >= 1 /\ \A j \in 1..N : \A k \in (j + 1)..N : Overlap(j, k)) =>
      \A c \in Cols :
        /\ preds[MaxRow(c)][c] = input[MaxRow(c)][c]
        /\ \A r \in 1..N : r # MaxRow(c) => preds[r][c] = 0

\* three mutually overlapping boxes at different places, the maximum of a
\* class in the middle
C7_Witness ==
    /\ GreedyDone
    /\ N = 3
    /\ \A j \in 1..N : \A k \in (j + 1)..N : Overlap(j, k) /\ input[j] # input[k]
    /\ \E c \in Cols : 0 < input[1][c] /\ input[1][c] < input[2][c]
                         /\ input[3][c] < input[2][c] /\ 0 < input[3][c]

\* C8: run_nms_inplace with a kind other than the greedy one returns at
\* once with the buffer as it was on input.
C8_OtherKindIsNoOp ==
    (entry = "run_nms_inplace" /\ yolo_layer.nms_kind # GREEDY_NMS) =>
      /\ pc = "done"
      /\ preds = input

\* the no-op happened on a buffer that greedy suppression would change
C8_Witness ==
    /\ pc = "done"
    /\ entry = "run_nms_inplace"
    /\ yolo_layer.nms_kind # GREEDY_NMS
    /\ SnapLoop(input, NMS_THRESHOLD) # input

\* C9 (as stated): the returned buffer is that of the nested loop in which
\* every comparison reads the current scores, a zeroing of score[i][c]
\* being visible to the later comparisons of the same iteration i.
C9_EqualsSequentialLoop == GreedyDone => preds = SeqLoop(input, nms_thresh)

\* C9 (amended): the returned buffer is that of the nested loop in which
\* score[i][c] is read once at the start of iteration i and score[j][c] at
\* the comparison.
C9_EqualsSnapshotLoop == GreedyDone => preds = SnapLoop(input, nms_thresh)

\* the call has returned a buffer on which the two loops differ
C9_Witness ==
    /\ GreedyDone
    /\ SeqLoop(input, nms_thresh) # SnapLoop(input, nms_thresh)

\* C10: once the iteration for box j is complete, no pair (j, k) of
\* overlapping boxes keeps two nonzero scores for the same class; after the
\* return this holds for every pair of the buffer.
C10_NoOverlappingPairBothNonzero ==
    /\ \A j \in 1..Last : \A k \in (j + 1)..N :
         Overlap(j, k) => \A c \in Cols : preds[j][c] = 0 \/ preds[k][c] = 0
    /\ GreedyDone => Last >= N - 1

\* the loop is between two iterations, a pair of an earlier iteration was
\* suppressed and a pair of a coming iteration still holds two scores
C10_Witness ==
    /\ pc = "loop"
    /\ i = 2
    /\ N = 3
    /\ \E c \in Cols :
         /\ Overlap(1, 2) /\ input[1][c] > 0 /\ input[2][c] > 0
         /\ Overlap(2, 3) /\ preds[2][c] > 0 /\ preds[3][c] > 0
====
